---- MODULE Spec2Model ----
(***************************************************************************)
(* A model of the 2D incompressible-flow solver (fluid.rs), the obstacle    *)
(* manager (obstacle.rs), the radiator analyzer (radiator.rs) and the       *)
(* scene orchestration (scene.rs).                                          *)
(*                                                                          *)
(* Numbers.  Every f64 of the program is a fixed-point integer counting     *)
(* units of 1/Scale; a product or a quotient is rounded toward zero, where  *)
(* the program rounds to the nearest f64.  The grid spacing is h = 0.5, a   *)
(* power of two, so that i*h, x*(1/h) and 0.5*h are exact in the program    *)
(* and in the model alike.  Grid fields are functions on <<i, j>>.          *)
(***************************************************************************)
EXTENDS Integers, Sequences, FiniteSets, TLC

\* ------------------------------------------------------------------------
\* Fixed-point arithmetic standing for f64
\* ------------------------------------------------------------------------
Scale == 64

One == Scale

Abs(a) == IF a < 0 THEN -a ELSE a

Max(a, b) == IF a >= b THEN a ELSE b

Min(a, b) == IF a <= b THEN a ELSE b

Sign(a) == IF a < 0 THEN -1 ELSE 1

\* n / d for d > 0, rounded toward zero
Trunc(n, d) == IF n >= 0 THEN n \div d ELSE -((-n) \div d)

\* a * b of two fixed-point numbers (split so that the product stays small)
FMul(a, b) ==
    LET aa == Abs(a)
        bb == Abs(b)
    IN  Sign(a) * Sign(b) * ((aa \div Scale) * bb + ((aa % Scale) * bb) \div Scale)

\* a / b of two fixed-point numbers; b = 0 gives 0 here and is reported
\* separately by the callers that can meet it
FDiv(a, b) ==
    IF b = 0 THEN 0
    ELSE IF b > 0 THEN Trunc(a * Scale, b)
    ELSE Trunc(-(a * Scale), -b)

\* the fixed-point number nearest to the decimal literal n/d
Dec(n, d) == (n * Scale + d \div 2) \div d

\* an integer count as a fixed-point number (i as f64)
Fix(i) == i * Scale

\* f.floor() of a fixed-point number, as an integer
Floor(a) == a \div Scale

\* f as usize: the cast saturates, a negative value gives 0
AsUsize(n) == IF n < 0 THEN 0 ELSE n

\* x < 1e-6 for a fixed-point x
BelowMicro(x) == x <= 0 \/ (x < Scale /\ x * 1000000 < Scale)

\* ------------------------------------------------------------------------
\* Parameters of a run
\* ------------------------------------------------------------------------
\* grid spacing h = 0.5
GridH == Scale \div 2

\* Scene::dt = 1/60, the nearest fixed-point number
SceneDt == Dec(1, 60)

\* density = 1000.0 (Scene::setup_scene)
Density == 1000 * Scale

\* Scene::gravity = 0.0
SceneGravity == 0

\* Scene::over_relaxation = 1.9
OverRelaxation == Dec(19, 10)

\* Scene::num_iters, the cap of the pressure solver (20 or 30 in the scenes)
NumIters == 6

\* ------------------------------------------------------------------------
\* Fluid (fluid.rs)
\* ------------------------------------------------------------------------
FieldType == {"U", "V", "Smoke"}

Cells(nx, ny) == (0 .. nx - 1) \X (0 .. ny - 1)

ConstField(nx, ny, val) == [c \in Cells(nx, ny) |-> val]

\* Fluid::new: two ghost cells are added to each dimension, every field is
\* zero and every cell is open
FluidNew(density, num_x, num_y, h) ==
    LET total_x == num_x + 2
        total_y == num_y + 2
    IN  [ density |-> density, num_x |-> total_x, num_y |-> total_y, h |-> h,
          u |-> ConstField(total_x, total_y, 0),
          v |-> ConstField(total_x, total_y, 0),
          new_u |-> ConstField(total_x, total_y, 0),
          new_v |-> ConstField(total_x, total_y, 0),
          p |-> ConstField(total_x, total_y, 0),
          s |-> ConstField(total_x, total_y, One),
          m |-> ConstField(total_x, total_y, 0),
          new_m |-> ConstField(total_x, total_y, 0) ]

\* Fluid::integrate
Integrate(f, dt, gravity) ==
    [f EXCEPT !.v = [c \in DOMAIN f.v |->
        IF /\ c[1] \in 1 .. f.num_x - 1
           /\ c[2] \in 1 .. f.num_y - 2
           /\ f.s[c] # 0
           /\ f.s[<<c[1], c[2] - 1>>] # 0
        THEN f.v[c] + FMul(gravity, dt)
        ELSE f.v[c]]]

\* the step without the reset of the pressure field
ClearPressureKeep(f) == f

\* p.fill(0.0) in Fluid::simulate_with_boundaries
ClearPressure(f) == [f EXCEPT !.p = [c \in DOMAIN f.p |-> 0]]

\* the interior cells in the order the solver visits them (i outer, j inner)
InteriorCell(f, k) == <<1 + (k \div (f.num_y - 2)), 1 + (k % (f.num_y - 2))>>

NeighbourSum(f, i, j) ==
    f.s[<<i - 1, j>>] + f.s[<<i + 1, j>>] + f.s[<<i, j - 1>>] + f.s[<<i, j + 1>>]

\* the cell loop with the s[i,j] test alone
SkipCellSolidOnly(f, i, j) == f.s[<<i, j>>] = 0

\* the two `continue` tests of the solver's cell loop
SkipCell(f, i, j) == f.s[<<i, j>>] = 0 \/ NeighbourSum(f, i, j) = 0

\* the weight with which a cell's correction goes to the face it shares with
\* the neighbour of openness sn
FaceWeight(sn, p) == FMul(sn, p)

\* one cell of one sweep; st carries u, v, p, max_change and div_by_zero
SolveCell(f, st, i, j, cp, over_relaxation) ==
    IF SkipCell(f, i, j) THEN st
    ELSE
        LET sx0 == f.s[<<i - 1, j>>]
            sx1 == f.s[<<i + 1, j>>]
            sy0 == f.s[<<i, j - 1>>]
            sy1 == f.s[<<i, j + 1>>]
            s_sum == sx0 + sx1 + sy0 + sy1
            div == st.u[<<i + 1, j>>] - st.u[<<i, j>>]
                   + st.v[<<i, j + 1>>] - st.v[<<i, j>>]
            p == FMul(FDiv(-div, s_sum), over_relaxation)
            p_change == FMul(cp, p)
        IN  [st EXCEPT
                !.u = [st.u EXCEPT ![<<i, j>>] = @ - FaceWeight(sx0, p),
                                   ![<<i + 1, j>>] = @ + FaceWeight(sx1, p)],
                !.v = [st.v EXCEPT ![<<i, j>>] = @ - FaceWeight(sy0, p),
                                   ![<<i, j + 1>>] = @ + FaceWeight(sy1, p)],
                !.p = [st.p EXCEPT ![<<i, j>>] = @ + p_change],
                !.max_change = Max(st.max_change, Abs(p_change)),
                !.div_by_zero = st.div_by_zero \/ s_sum = 0]

RECURSIVE SweepFrom(_, _, _, _, _)
SweepFrom(f, st, k, cp, over_relaxation) ==
    IF k >= (f.num_x - 2) * (f.num_y - 2) THEN st
    ELSE LET c == InteriorCell(f, k)
             done == SolveCell(f, st, c[1], c[2], cp, over_relaxation)
         IN  \* the cell is evaluated before the next one is visited
             IF done.max_change >= 0
             THEN SweepFrom(f, done, k + 1, cp, over_relaxation)
             ELSE done

\* an early exit that is open one sweep sooner
StopEarlyOffByOne(iter, max_change) == iter > 2 /\ BelowMicro(max_change)

\* the early-exit test at the end of sweep number iter (counted from 0)
StopEarly(iter, max_change) == iter > 3 /\ BelowMicro(max_change)

\* the sweeps from number iter on; changes lists max_change of every sweep run
RECURSIVE SolveFrom(_, _, _, _, _, _)
SolveFrom(f, st, iter, num_iters, cp, over_relaxation) ==
    IF iter >= num_iters THEN st
    ELSE
        LET swept == SweepFrom(f, [st EXCEPT !.max_change = 0], 0, cp, over_relaxation)
            done == [swept EXCEPT !.changes = Append(st.changes, swept.max_change)]
        IN  IF StopEarly(iter, swept.max_change) THEN done
            ELSE SolveFrom(f, done, iter + 1, num_iters, cp, over_relaxation)

\* Fluid::solve_incompressibility, with the record of its run
SolveRun(f, num_iters, dt, over_relaxation) ==
    LET cp == FDiv(FMul(f.density, f.h), dt)
    IN  SolveFrom(f, [u |-> f.u, v |-> f.v, p |-> f.p, max_change |-> 0,
                      div_by_zero |-> FALSE, changes |-> <<>>],
                  0, num_iters, cp, over_relaxation)

\* the fluid a run r of the solver leaves
Solved(f, r) == [f EXCEPT !.u = r.u, !.v = r.v, !.p = r.p]

SolveIncompressibility(f, num_iters, dt, over_relaxation) ==
    Solved(f, SolveRun(f, num_iters, dt, over_relaxation))

\* extrapolate with the left column copied from the interior whatever it
\* holds
ExtrapolateAlwaysCopy(f) ==
    LET nx == f.num_x
        ny == f.num_y
        u1 == [c \in DOMAIN f.u |-> IF c[2] = 0 THEN f.u[<<c[1], 1>>] ELSE f.u[c]]
        u2 == [c \in DOMAIN f.u |->
                IF c[2] = ny - 1 THEN u1[<<c[1], ny - 2>>] ELSE u1[c]]
        v2 == [c \in DOMAIN f.v |-> IF c[2] = 0 \/ c[2] = ny - 1 THEN 0 ELSE f.v[c]]
        u3 == [c \in DOMAIN f.u |-> IF c[1] = 0 THEN u2[<<1, c[2]>>] ELSE u2[c]]
        v3 == [c \in DOMAIN f.v |-> IF c[1] = 0 THEN v2[<<1, c[2]>>] ELSE v2[c]]
        u4 == [c \in DOMAIN f.u |->
                IF c[1] = nx - 1 THEN u3[<<nx - 2, c[2]>>] ELSE u3[c]]
        v4 == [c \in DOMAIN f.v |->
                IF c[1] = nx - 1 THEN v3[<<nx - 2, c[2]>>] ELSE v3[c]]
    IN  [f EXCEPT !.u = u4, !.v = v4]

\* Fluid::extrapolate; the statements of each loop touch one column (one row)
\* per iteration, so each statement is applied to the whole field in turn
Extrapolate(f) ==
    LET nx == f.num_x
        ny == f.num_y
        u1 == [c \in DOMAIN f.u |-> IF c[2] = 0 THEN f.u[<<c[1], 1>>] ELSE f.u[c]]
        u2 == [c \in DOMAIN f.u |->
                IF c[2] = ny - 1 THEN u1[<<c[1], ny - 2>>] ELSE u1[c]]
        v2 == [c \in DOMAIN f.v |-> IF c[2] = 0 \/ c[2] = ny - 1 THEN 0 ELSE f.v[c]]
        u3 == [c \in DOMAIN f.u |->
                IF c[1] = 0 /\ u2[c] = 0 THEN u2[<<1, c[2]>>] ELSE u2[c]]
        v3 == [c \in DOMAIN f.v |-> IF c[1] = 0 THEN v2[<<1, c[2]>>] ELSE v2[c]]
        u4 == [c \in DOMAIN f.u |->
                IF c[1] = nx - 1 THEN u3[<<nx - 2, c[2]>>] ELSE u3[c]]
        v4 == [c \in DOMAIN f.v |->
                IF c[1] = nx - 1 THEN v3[<<nx - 2, c[2]>>] ELSE v3[c]]
    IN  [f EXCEPT !.u = u4, !.v = v4]

\* sampling without the clamp
ClampCoordNone(f, x, n) == x

\* the clamp of Fluid::sample_field: x.max(h).min((n - 1) * h)
ClampCoord(f, x, n) == Min(Max(x, f.h), FMul(Fix(n) - One, f.h))

\* every field sampled at the grid nodes, with no offset
SampleOffsetNone(f, field) == <<0, 0>>

\* the (dx, dy) offset of each field kind in Fluid::sample_field
SampleOffset(f, field) ==
    LET h2 == FMul(One \div 2, f.h)
    IN  CASE field = "U" -> <<0, h2>>
          [] field = "V" -> <<h2, 0>>
          [] field = "Smoke" -> <<h2, h2>>

FieldData(f, field) ==
    CASE field = "U" -> f.u
      [] field = "V" -> f.v
      [] field = "Smoke" -> f.m

\* the indices and weights Fluid::sample_field computes for a query
SampleIndex(f, x, y, field) ==
    LET h1 == FDiv(One, f.h)
        off == SampleOffset(f, field)
        x_sample == ClampCoord(f, x, f.num_x) - off[1]
        y_sample == ClampCoord(f, y, f.num_y) - off[2]
        x0 == Min(AsUsize(Floor(FMul(x_sample, h1))), f.num_x - 1)
        y0 == Min(AsUsize(Floor(FMul(y_sample, h1))), f.num_y - 1)
    IN  [ x0 |-> x0, x1 |-> Min(x0 + 1, f.num_x - 1),
          y0 |-> y0, y1 |-> Min(y0 + 1, f.num_y - 1),
          tx |-> FMul(x_sample, h1) - Fix(x0),
          ty |-> FMul(y_sample, h1) - Fix(y0) ]

\* the array elements one call of Fluid::sample_field reads
SampleReads(f, x, y, field) ==
    LET k == SampleIndex(f, x, y, field)
    IN  {<<k.x0, k.y0>>, <<k.x1, k.y0>>, <<k.x1, k.y1>>, <<k.x0, k.y1>>}

\* Fluid::sample_field
SampleField(f, x, y, field) ==
    LET k == SampleIndex(f, x, y, field)
        d == FieldData(f, field)
        sx == One - k.tx
        sy == One - k.ty
    IN  FMul(FMul(sx, sy), d[<<k.x0, k.y0>>])
        + FMul(FMul(k.tx, sy), d[<<k.x1, k.y0>>])
        + FMul(FMul(k.tx, k.ty), d[<<k.x1, k.y1>>])
        + FMul(FMul(sx, k.ty), d[<<k.x0, k.y1>>])

\* Fluid::avg_u
AvgU(f, i, j) ==
    IF j = 0 THEN f.u[<<i, j>>]
    ELSE FMul(f.u[<<i, j - 1>>] + f.u[<<i, j>>]
              + f.u[<<i + 1, j - 1>>] + f.u[<<i + 1, j>>], One \div 4)

\* Fluid::avg_v
AvgV(f, i, j) ==
    IF i = 0 THEN f.v[<<i, j>>]
    ELSE FMul(f.v[<<i - 1, j>>] + f.v[<<i, j>>]
              + f.v[<<i - 1, j + 1>>] + f.v[<<i, j + 1>>], One \div 4)

\* the test of the u half with the cell to the left not looked at
AdvectsUOpenCellOnly(f, i, j) ==
    /\ i \in 1 .. f.num_x - 1
    /\ j \in 1 .. f.num_y - 1
    /\ f.s[<<i, j>>] # 0
    /\ j < f.num_y - 1

\* the faces Fluid::advect_velocity gives a new value
AdvectsU(f, i, j) ==
    /\ i \in 1 .. f.num_x - 1
    /\ j \in 1 .. f.num_y - 1
    /\ f.s[<<i, j>>] # 0
    /\ f.s[<<i - 1, j>>] # 0
    /\ j < f.num_y - 1

AdvectsV(f, i, j) ==
    /\ i \in 1 .. f.num_x - 1
    /\ j \in 1 .. f.num_y - 1
    /\ f.s[<<i, j>>] # 0
    /\ j > 0
    /\ f.s[<<i, j - 1>>] # 0
    /\ i < f.num_x - 1

\* the value advect_velocity computes for u[i, j]
AdvectedU(g, i, j, dt) ==
    SampleField(g, FMul(Fix(i), g.h) - FMul(dt, g.u[<<i, j>>]),
                FMul(Fix(j), g.h) + FMul(One \div 2, g.h) - FMul(dt, AvgV(g, i, j)),
                "U")

\* the value it computes for v[i, j]
AdvectedV(g, i, j, dt) ==
    SampleField(g, FMul(Fix(i), g.h) + FMul(One \div 2, g.h) - FMul(dt, AvgU(g, i, j)),
                FMul(Fix(j), g.h) - FMul(dt, g.v[<<i, j>>]),
                "V")

\* the first half of the loop body with the new value written to u itself
AdvectUStepInPlace(g, i, j, dt) ==
    IF AdvectsU(g, i, j)
    THEN [g EXCEPT !.new_u[<<i, j>>] = AdvectedU(g, i, j, dt),
                   !.u[<<i, j>>] = AdvectedU(g, i, j, dt)]
    ELSE g

\* the first half of the loop body at (i, j): self.new_u[[i, j]] = u_new
AdvectUStep(g, i, j, dt) ==
    IF AdvectsU(g, i, j)
    THEN [g EXCEPT !.new_u[<<i, j>>] = AdvectedU(g, i, j, dt)]
    ELSE g

\* the second half: self.new_v[[i, j]] = v_new
AdvectVStep(g, i, j, dt) ==
    IF AdvectsV(g, i, j)
    THEN [g EXCEPT !.new_v[<<i, j>>] = AdvectedV(g, i, j, dt)]
    ELSE g

\* the body of the face loop of advect_velocity at (i, j)
AdvectFaceStep(g, i, j, dt) == AdvectVStep(AdvectUStep(g, i, j, dt), i, j, dt)

\* the fluid after the loop body has run at places k .. n of `order`
RECURSIVE AdvectVelocitySweep(_, _, _, _, _)
AdvectVelocitySweep(g, order, k, n, dt) ==
    IF k > n THEN g
    ELSE \* the face is evaluated before the next one is visited
         CHOOSE swept \in {AdvectVelocitySweep(done, order, k + 1, n, dt) :
                            done \in {AdvectFaceStep(g, order[k][1], order[k][2], dt)}} : TRUE

\* for i in 1..num_x { for j in 1..num_y
VelocityFaces(f) ==
    [k \in 1 .. (f.num_x - 1) * (f.num_y - 1) |->
        <<1 + ((k - 1) \div (f.num_y - 1)), 1 + ((k - 1) % (f.num_y - 1))>>]

\* advect_velocity with its loop run over `order`: new_u and new_v are
\* assigned u and v, the loop runs, u and v are assigned new_u and new_v
AdvectVelocityOver(f, dt, order) ==
    LET g == AdvectVelocitySweep([f EXCEPT !.new_u = f.u, !.new_v = f.v],
                                 order, 1, Len(order), dt)
    IN  [g EXCEPT !.u = g.new_u, !.v = g.new_v]

\* Fluid::advect_velocity
AdvectVelocity(f, dt) == AdvectVelocityOver(f, dt, VelocityFaces(f))

\* the cells advect_smoke gives a new value
AdvectsM(f, i, j) ==
    /\ i \in 1 .. f.num_x - 2
    /\ j \in 1 .. f.num_y - 2
    /\ f.s[<<i, j>>] # 0

\* the sampled value added to the dye the cell holds
AdvectedMAdded(g, i, j, dt) ==
    g.m[<<i, j>>]
    + SampleField(g,
        FMul(Fix(i), g.h) + FMul(One \div 2, g.h)
            - FMul(dt, FMul(g.u[<<i, j>>] + g.u[<<i + 1, j>>], One \div 2)),
        FMul(Fix(j), g.h) + FMul(One \div 2, g.h)
            - FMul(dt, FMul(g.v[<<i, j>>] + g.v[<<i, j + 1>>], One \div 2)),
        "Smoke")

\* the value advect_smoke computes for m[i, j]
AdvectedM(g, i, j, dt) ==
    SampleField(g,
        FMul(Fix(i), g.h) + FMul(One \div 2, g.h)
            - FMul(dt, FMul(g.u[<<i, j>>] + g.u[<<i + 1, j>>], One \div 2)),
        FMul(Fix(j), g.h) + FMul(One \div 2, g.h)
            - FMul(dt, FMul(g.v[<<i, j>>] + g.v[<<i, j + 1>>], One \div 2)),
        "Smoke")

\* the body of the cell loop of advect_smoke at (i, j):
\* self.new_m[[i, j]] = m_new
AdvectCellStep(g, i, j, dt) ==
    IF AdvectsM(g, i, j)
    THEN [g EXCEPT !.new_m[<<i, j>>] = AdvectedM(g, i, j, dt)]
    ELSE g

RECURSIVE AdvectSmokeSweep(_, _, _, _, _)
AdvectSmokeSweep(g, order, k, n, dt) ==
    IF k > n THEN g
    ELSE \* the cell is evaluated before the next one is visited
         CHOOSE swept \in {AdvectSmokeSweep(done, order, k + 1, n, dt) :
                            done \in {AdvectCellStep(g, order[k][1], order[k][2], dt)}} : TRUE

\* for i in 1..num_x - 1 { for j in 1..num_y - 1
SmokeCells(f) ==
    [k \in 1 .. (f.num_x - 2) * (f.num_y - 2) |->
        <<1 + ((k - 1) \div (f.num_y - 2)), 1 + ((k - 1) % (f.num_y - 2))>>]

AdvectSmokeOver(f, dt, order) ==
    LET g == AdvectSmokeSweep([f EXCEPT !.new_m = f.m], order, 1, Len(order), dt)
    IN  [g EXCEPT !.m = g.new_m]

\* Fluid::advect_smoke
AdvectSmoke(f, dt) == AdvectSmokeOver(f, dt, SmokeCells(f))

\* Fluid::enforce_boundary_conditions: inflow columns, then the wall rows,
\* then the outflow column
EnforceBoundaryConditions(f, inflow_velocity) ==
    LET nx == f.num_x
        ny == f.num_y
        u1 == [c \in DOMAIN f.u |->
                IF c[1] \in {0, 1} /\ c[2] \in 1 .. ny - 2
                THEN inflow_velocity ELSE f.u[c]]
        u2 == [c \in DOMAIN f.u |-> IF c[2] = 0 \/ c[2] = ny - 1 THEN 0 ELSE u1[c]]
        v2 == [c \in DOMAIN f.v |-> IF c[2] = 0 \/ c[2] = ny - 1 THEN 0 ELSE f.v[c]]
        u3 == [c \in DOMAIN f.u |->
                IF c[1] = nx - 1 THEN u2[<<nx - 2, c[2]>>] ELSE u2[c]]
        v3 == [c \in DOMAIN f.v |->
                IF c[1] = nx - 1 THEN v2[<<nx - 2, c[2]>>] ELSE v2[c]]
    IN  [f EXCEPT !.u = u3, !.v = v3]

\* blend_factor = 1.0 - offset / wall_distance, wall_distance = 3
BlendFactor(offset) == One - FDiv(Fix(offset), Fix(3))

\* one wall pass of Fluid::apply_boundary_layer_control: top = TRUE is the
\* pass near row num_y - 1 (suction -0.05), top = FALSE the one near row 0
WallPass(f, inflow_velocity, top) ==
    IF ~(f.num_y > 4) THEN f
    ELSE
        LET Offset(j) == IF top THEN f.num_y - 1 - j ELSE j
            Hit(c) == c[1] \in 2 .. f.num_x - 3 /\ Offset(c[2]) \in 1 .. 3
            TargetU(c) ==
                FMul(inflow_velocity, One - FMul(Dec(1, 10), BlendFactor(Offset(c[2]))))
            Suction == IF top THEN -Dec(5, 100) ELSE Dec(5, 100)
        IN  [f EXCEPT
                !.u = [c \in DOMAIN f.u |->
                        IF Hit(c)
                        THEN FMul(f.u[c], Dec(8, 10)) + FMul(TargetU(c), Dec(2, 10))
                        ELSE f.u[c]],
                !.v = [c \in DOMAIN f.v |->
                        IF Hit(c) THEN FMul(Suction, BlendFactor(Offset(c[2])))
                        ELSE f.v[c]]]

\* the rows of the core region: core_start .. core_end - 1
CoreRows(f) == (f.num_y \div 4) .. ((3 * f.num_y) \div 4 - 1)

\* the core loop of Fluid::apply_boundary_layer_control over columns
\* 2 .. last_i; rows of CoreRows that lie in the arrays
CorePass(f, inflow_velocity, last_i) ==
    [f EXCEPT !.u = [c \in DOMAIN f.u |->
        IF c[1] \in 2 .. last_i /\ c[2] \in CoreRows(f)
        THEN FMul(f.u[c], Dec(95, 100)) + FMul(inflow_velocity, Dec(5, 100))
        ELSE f.u[c]]]

\* `self.num_x - 10` is an unsigned subtraction: it goes below zero on a grid
\* of fewer than 10 columns
CoreRangeUnderflows(f) == f.num_x < 10

\* Fluid::apply_boundary_layer_control on a grid where it returns
ApplyBoundaryLayerControl(f, inflow_velocity) ==
    CorePass(WallPass(WallPass(f, inflow_velocity, TRUE), inflow_velocity, FALSE),
             inflow_velocity, f.num_x - 11)

\* the fields the call leaves behind when it panics: a build with overflow
\* checks stops at the subtraction; a build without them wraps, the core
\* loop runs over every column from 2 on and stops at the first index past
\* the array
BoundaryLayerPanicOutcomes(f, inflow_velocity) ==
    LET walls == WallPass(WallPass(f, inflow_velocity, TRUE), inflow_velocity, FALSE)
    IN  {walls, CorePass(walls, inflow_velocity, f.num_x - 1)}

\* ------------------------------------------------------------------------
\* Obstacles (obstacle.rs)
\* ------------------------------------------------------------------------
\* angles are quarter turns: 0 is 0 rad, 1 is pi/2
CosQ(angle) == IF angle = 0 THEN One ELSE 0

SinQ(angle) == IF angle = 0 THEN 0 ELSE One

\* Obstacle::new_circle
NewCircle(x, y, radius) ==
    [ x |-> x, y |-> y, angle |-> 0, shape |-> "Circle", radius |-> radius,
      width |-> 0, height |-> 0, is_porous |-> FALSE, porosity |-> 0,
      resistance |-> 0 ]

\* Obstacle::new_rectangle
NewRectangle(x, y, width, height, angle) ==
    [ x |-> x, y |-> y, angle |-> angle, shape |-> "Rectangle", radius |-> 0,
      width |-> width, height |-> height, is_porous |-> FALSE, porosity |-> 0,
      resistance |-> 0 ]

\* Obstacle::new_porous_rectangle: the arguments are stored as given
NewPorousRectangle(x, y, width, height, angle, porosity, resistance) ==
    [ x |-> x, y |-> y, angle |-> angle, shape |-> "Rectangle", radius |-> 0,
      width |-> width, height |-> height, is_porous |-> TRUE,
      porosity |-> porosity, resistance |-> resistance ]

\* local coordinates of a point in the frame of a centre and an angle
LocalX(cx, cy, angle, px, py) ==
    FMul(px - cx, CosQ(angle)) + FMul(py - cy, SinQ(angle))

LocalY(cx, cy, angle, px, py) ==
    -FMul(px - cx, SinQ(angle)) + FMul(py - cy, CosQ(angle))

\* Obstacle::contains_point (circle, cylinder and rectangle); the squares of
\* the circle test are compared exactly
ContainsPoint(o, px, py) ==
    LET local_x == LocalX(o.x, o.y, o.angle, px, py)
        local_y == LocalY(o.x, o.y, o.angle, px, py)
    IN  IF o.shape \in {"Circle", "Cylinder"}
        THEN local_x * local_x + local_y * local_y <= o.radius * o.radius
        ELSE /\ Abs(local_x) <= FMul(o.width, One \div 2)
             /\ Abs(local_y) <= FMul(o.height, One \div 2)

\* centre of cell (i, j), and the positions of its u and v faces
CentreX(h, i) == FMul(Fix(i) + One \div 2, h)

FaceX(h, i) == FMul(Fix(i), h)

\* first pass of apply_single_obstacle at one cell
MarkCell(o, g, i, j, h) ==
    IF ~ContainsPoint(o, CentreX(h, i), CentreX(h, j)) THEN g
    ELSE IF o.is_porous
    THEN [g EXCEPT
            !.s[<<i, j>>] = o.porosity,
            !.u = [g.u EXCEPT ![<<i, j>>] = FMul(@, o.porosity),
                              ![<<i + 1, j>>] = FMul(@, o.porosity)],
            !.v = [g.v EXCEPT ![<<i, j>>] = FMul(@, o.porosity),
                              ![<<i, j + 1>>] = FMul(@, o.porosity)]]
    ELSE [g EXCEPT !.s[<<i, j>>] = 0, !.m[<<i, j>>] = 0]

\* first pass: cells 1 .. num_x - 3 by 1 .. num_y - 3, i outer, j inner
RECURSIVE MarkFrom(_, _, _, _, _, _)
MarkFrom(o, g, k, num_x, num_y, h) ==
    IF num_y - 3 < 1 \/ k >= (num_x - 3) * (num_y - 3) THEN g
    ELSE LET done == MarkCell(o, g, 1 + (k \div (num_y - 3)), 1 + (k % (num_y - 3)), h)
         IN  \* the cell is evaluated before the next one is visited
             IF done.num_x = num_x
             THEN MarkFrom(o, done, k + 1, num_x, num_y, h)
             ELSE done

\* a second pass that looks at the openness of the two adjoining cells alone
NoSlipPassNeighboursOnly(o, g, num_x, num_y, h) ==
    LET InRange(c) == c[1] \in 1 .. num_x - 2 /\ c[2] \in 1 .. num_y - 2
    IN  [g EXCEPT
            !.u = [c \in DOMAIN g.u |->
                IF InRange(c) /\ (g.s[<<c[1] - 1, c[2]>>] = 0 \/ g.s[c] = 0)
                THEN 0 ELSE g.u[c]],
            !.v = [c \in DOMAIN g.v |->
                IF InRange(c) /\ (g.s[<<c[1], c[2] - 1>>] = 0 \/ g.s[c] = 0)
                THEN 0 ELSE g.v[c]]]

\* second pass: no-slip on the faces 1 .. num_x - 2 by 1 .. num_y - 2
NoSlipPass(o, g, num_x, num_y, h) ==
    LET InRange(c) == c[1] \in 1 .. num_x - 2 /\ c[2] \in 1 .. num_y - 2
    IN  [g EXCEPT
            !.u = [c \in DOMAIN g.u |->
                IF /\ InRange(c)
                   /\ \/ g.s[<<c[1] - 1, c[2]>>] = 0
                      \/ g.s[c] = 0
                      \/ ContainsPoint(o, FaceX(h, c[1]), CentreX(h, c[2]))
                THEN 0 ELSE g.u[c]],
            !.v = [c \in DOMAIN g.v |->
                IF /\ InRange(c)
                   /\ \/ g.s[<<c[1], c[2] - 1>>] = 0
                      \/ g.s[c] = 0
                      \/ ContainsPoint(o, CentreX(h, c[1]), FaceX(h, c[2]))
                THEN 0 ELSE g.v[c]]]

\* ObstacleManager::apply_single_obstacle
ApplySingleObstacle(o, g, num_x, num_y, h) ==
    NoSlipPass(o, MarkFrom(o, g, 0, num_x, num_y, h), num_x, num_y, h)

\* ObstacleManager::apply_to_fluid: every obstacle of the list, in order
RECURSIVE ApplyToFluid(_, _)
ApplyToFluid(obs, f) ==
    IF obs = <<>> THEN f
    ELSE ApplyToFluid(Tail(obs), ApplySingleObstacle(Head(obs), f, f.num_x, f.num_y, f.h))

\* ------------------------------------------------------------------------
\* Radiator (radiator.rs)
\* ------------------------------------------------------------------------
\* the integer square root, standing for f64::sqrt on fixed-point squares
ISqrt(n) == CHOOSE r \in 0 .. n : r * r <= n /\ (r + 1) * (r + 1) > n

\* alpha * mu of apply_porous_medium_resistance, mu = 1.8e-5: alpha is
\* resistance / porosity while the permeability is above the floor 1e-10,
\* and 1e10 when the floor applies (a permeability that is not positive)
ViscousResistance(r) ==
    IF r.porosity > 0 /\ r.resistance > 0
    THEN (FDiv(r.resistance, r.porosity) * 18) \div 1000000
    ELSE Fix(180000)

\* damping = 1 / (1 + resistance_factor); porosity 0 makes beta infinite and
\* the damping 0
RadiatorDamping(f, r, velocity_magnitude) ==
    IF r.porosity = 0 THEN 0
    ELSE
        LET cube == FMul(FMul(r.porosity, r.porosity), r.porosity)
            beta == FMul(FDiv(One - r.porosity, cube), Dec(175, 100))
            inertial == FMul(FMul(beta, f.density), velocity_magnitude)
            total == ViscousResistance(r) + inertial
            resistance_factor == FMul(total, f.h)
        IN  FDiv(One, One + resistance_factor)

\* the cells apply_radiator_to_fluid hands to apply_porous_medium_resistance
InRadiator(f, r, i, j) ==
    /\ i \in 1 .. f.num_x - 2
    /\ j \in 1 .. f.num_y - 2
    /\ Abs(LocalX(r.x, r.y, r.angle, CentreX(f.h, i), CentreX(f.h, j)))
          <= FMul(r.width, One \div 2)
    /\ Abs(LocalY(r.x, r.y, r.angle, CentreX(f.h, i), CentreX(f.h, j)))
          <= FMul(r.height, One \div 2)

VelocityMagnitude(f, c) == ISqrt(f.u[c] * f.u[c] + f.v[c] * f.v[c])

\* apply_porous_medium_resistance leaves a cell alone when its speed is
\* below 1e-6
Resisted(f, r, c) ==
    InRadiator(f, r, c[1], c[2]) /\ ~BelowMicro(VelocityMagnitude(f, c))

\* RadiatorAnalyzer::apply_radiator_to_fluid; a cell reads and writes only
\* its own u, v and s
ApplyRadiatorToFluid(f, r) ==
    [f EXCEPT
        !.u = [c \in DOMAIN f.u |->
                IF Resisted(f, r, c)
                THEN FMul(f.u[c], RadiatorDamping(f, r, VelocityMagnitude(f, c)))
                ELSE f.u[c]],
        !.v = [c \in DOMAIN f.v |->
                IF Resisted(f, r, c)
                THEN FMul(f.v[c], RadiatorDamping(f, r, VelocityMagnitude(f, c)))
                ELSE f.v[c]],
        !.s = [c \in DOMAIN f.s |-> IF Resisted(f, r, c) THEN r.porosity ELSE f.s[c]]]

\* RadiatorAnalyzer::sample_pressure_at_point
SamplePressureIndex(f, x, y) ==
    LET grid_x == Min(Max(FDiv(x, f.h), 0), Fix(f.num_x - 1))
        grid_y == Min(Max(FDiv(y, f.h), 0), Fix(f.num_y - 1))
        i0 == AsUsize(Floor(grid_x))
        j0 == AsUsize(Floor(grid_y))
    IN  [ i0 |-> i0, i1 |-> Min(i0 + 1, f.num_x - 1),
          j0 |-> j0, j1 |-> Min(j0 + 1, f.num_y - 1),
          tx |-> grid_x - Fix(i0), ty |-> grid_y - Fix(j0) ]

SamplePressureAtPoint(f, x, y) ==
    LET k == SamplePressureIndex(f, x, y)
    IN  FMul(FMul(One - k.tx, One - k.ty), f.p[<<k.i0, k.j0>>])
        + FMul(FMul(k.tx, One - k.ty), f.p[<<k.i1, k.j0>>])
        + FMul(FMul(k.tx, k.ty), f.p[<<k.i1, k.j1>>])
        + FMul(FMul(One - k.tx, k.ty), f.p[<<k.i0, k.j1>>])

\* ------------------------------------------------------------------------
\* Scene setup (scene.rs)
\* ------------------------------------------------------------------------
SetRow(fld, j, val) == [c \in DOMAIN fld |-> IF c[2] = j THEN val ELSE fld[c]]

\* the dye that setup_tank (columns below num_x / 4) and setup_default
\* (columns below num_x / 3) put in
SetupDye(f, part) ==
    [f EXCEPT !.m = [c \in DOMAIN f.m |->
        IF c[1] \in 1 .. (f.num_x \div part) - 1 /\ c[2] \in 1 .. f.num_y - 2
        THEN One ELSE f.m[c]]]

\* Scene::obstacle_radius = 0.15
ObstacleRadius == Dec(15, 100)

\* the cylinder setup_wind_tunnel places
TunnelCylinder(f) ==
    NewCircle(FMul(FMul(Fix(f.num_x), f.h), Dec(4, 10)),
              FMul(FMul(Fix(f.num_y), f.h), Dec(5, 10)), ObstacleRadius)

\* Scene::setup_wind_tunnel, inflow 5.0
SetupWindTunnel(f, inflow_velocity) ==
    LET ny == f.num_y
        Inflow(c) == c[1] \in {0, 1} /\ c[2] \in 1 .. ny - 2
        u1 == [c \in DOMAIN f.u |-> IF Inflow(c) THEN inflow_velocity ELSE f.u[c]]
        m1 == [c \in DOMAIN f.m |-> IF Inflow(c) THEN One ELSE f.m[c]]
        u2 == SetRow(SetRow(u1, ny - 1, 0), 0, 0)
        s2 == SetRow(SetRow(f.s, ny - 1, 0), 0, 0)
        suction == Dec(1, 10)
        va == SetRow(f.v, ny - 1, 0)
        vb == IF ny > 3
              THEN SetRow(SetRow(va, ny - 2, -suction), ny - 3, FMul(-suction, One \div 2))
              ELSE va
        vc == SetRow(vb, 0, 0)
        vd == IF ny > 3
              THEN SetRow(SetRow(vc, 1, suction), 2, FMul(suction, One \div 2))
              ELSE vc
        walled == [f EXCEPT !.u = u2, !.v = vd, !.s = s2, !.m = m1]
    IN  ApplyToFluid(<<TunnelCylinder(f)>>, walled)

\* Scene::setup_clean_wind_tunnel, inflow 10.0
SetupCleanWindTunnel(f, inflow_velocity) ==
    LET ny == f.num_y
        Inner(c) == c[2] \in 1 .. ny - 2
        u1 == [c \in DOMAIN f.u |-> IF Inner(c) THEN inflow_velocity ELSE f.u[c]]
        v1 == [c \in DOMAIN f.v |-> IF Inner(c) THEN 0 ELSE f.v[c]]
        s1 == [c \in DOMAIN f.s |-> IF Inner(c) THEN One ELSE f.s[c]]
        m1 == [c \in DOMAIN f.m |->
                IF Inner(c) /\ c[1] \in {0, 1} THEN One
                ELSE IF Inner(c) /\ c[1] = 2 THEN Dec(8, 10)
                ELSE f.m[c]]
    IN  [f EXCEPT !.u = SetRow(SetRow(u1, ny - 1, 0), 0, 0),
                  !.v = SetRow(SetRow(v1, ny - 1, 0), 0, 0),
                  !.s = SetRow(SetRow(s1, ny - 1, 0), 0, 0),
                  !.m = m1]

\* the scene type Scene::setup_scene gives each scene number
SceneTypeOf(scene_nr) ==
    CASE scene_nr = 0 -> "Tank"
      [] scene_nr \in {1, 3, 4} -> "WindTunnel"
      [] scene_nr = 2 -> "Paint"
      [] OTHER -> "Default"

\* the inflow velocity after setup: 5.0 unless the clean tunnel sets 10.0
InflowOf(scene_nr) == IF scene_nr = 4 THEN Fix(10) ELSE Fix(5)

\* the fluid Scene::setup_scene builds for a scene number on a grid of
\* num_x by num_y interior cells
SetupFluid(scene_nr, num_x, num_y) ==
    LET f == FluidNew(Density, num_x, num_y, GridH)
    IN  CASE scene_nr = 0 -> SetupDye(f, 4)
          [] scene_nr \in {1, 3} -> SetupWindTunnel(f, InflowOf(scene_nr))
          [] scene_nr = 2 -> f
          [] scene_nr = 4 -> SetupCleanWindTunnel(f, InflowOf(scene_nr))
          [] OTHER -> SetupDye(f, 3)

\* ------------------------------------------------------------------------
\* Bounds of the model
\* ------------------------------------------------------------------------
\* simulate calls of one run; an obstacle or radiator operation counts as
\* three of them
MaxSteps == 8

\* obstacle and radiator operations of one run
MaxOps == 2

\* the scenes set up: <<scene number, num_x, num_y>> as handed to
\* Scene::setup_scene and Fluid::new (tank, wind tunnel and clean wind tunnel
\* on a small grid; the wind tunnel on two grids of 13 columns and on a grid
\* whose cylinder holds a v face and no cell centre; the paint scene on a
\* grid built with num_x = 0)
Setups == {<<0, 4, 3>>, <<1, 4, 3>>, <<4, 4, 3>>, <<1, 11, 1>>, <<1, 11, 3>>,
           <<1, 2, 4>>, <<2, 0, 1>>}

\* obstacles handed to Scene::add_obstacle: a solid block that reaches the
\* inflow columns, and a porous cell inside the block with porosity 0.5 and
\* with porosity 1.5
ObstacleChoices ==
    { NewRectangle(Dec(125, 100), One, Dec(125, 100), Dec(75, 100), 0),
      NewPorousRectangle(Dec(125, 100), Dec(75, 100), Dec(25, 100), Dec(25, 100), 1,
                         Dec(5, 10), Fix(100)),
      NewPorousRectangle(Dec(125, 100), Dec(75, 100), Dec(25, 100), Dec(25, 100), 0,
                         Dec(15, 10), Fix(100)) }

\* radiators handed to RadiatorAnalyzer::apply_radiator_to_fluid
RadiatorChoices ==
    { [ x |-> Dec(125, 100), y |-> One, width |-> Dec(25, 100), height |-> Dec(75, 100),
        angle |-> 0, porosity |-> Dec(8, 10), resistance |-> Fix(100) ] }

\* ------------------------------------------------------------------------
\* State
\* ------------------------------------------------------------------------
VARIABLES
    fluid,            \* Scene::fluid: <<>> is None, <<f>> is Some(f)
    scene_type,       \* Scene::scene_type
    inflow_velocity,  \* Scene::inflow_velocity
    obstacles,        \* Scene::obstacle_manager.obstacles
    radiators,        \* RadiatorAnalyzer::radiators
    step_counter,     \* the static STEP_COUNTER of Scene::simulate
    pc,               \* where the program is: "idle", a phase of a step, "panicked"
    trace,            \* the phases the simulate call in progress or just ended has run
    step_start,       \* the fluid on entry to that call (<<>> before the first)
    solve_log,        \* max_change of every sweep of the last solver run, and
                      \* whether it divided by zero
    steps,            \* simulate calls on a fluid so far
    scene_calls,      \* simulate calls on the fluid of the present Scene
    ops,              \* obstacle and radiator operations so far
    query,            \* the last sampling query
    result,           \* what it returned and which array elements it read
    metrics_history   \* RadiatorAnalyzer::metrics_history

vars == <<fluid, scene_type, inflow_velocity, obstacles, radiators, step_counter, pc,
          trace, step_start, solve_log, steps, scene_calls, ops, query, result,
          metrics_history>>

F == fluid[1]

NoLog == [changes |-> <<>>, div_by_zero |-> FALSE]

NoQuery == [kind |-> "none", x |-> 0, y |-> 0]

NoResult == [value |-> 0, reads |-> {}]

\* Scene::new (Scene::default)
Init ==
    /\ fluid = <<>>
    /\ scene_type = "Default"
    /\ inflow_velocity = Fix(5)
    /\ obstacles = <<>>
    /\ radiators = <<>>
    /\ step_counter = 0
    /\ pc = "idle"
    /\ trace = <<>>
    /\ step_start = <<>>
    /\ solve_log = NoLog
    /\ steps = 0
    /\ scene_calls = 0
    /\ ops = 0
    /\ query = NoQuery
    /\ result = NoResult
    /\ metrics_history = <<>>

\* Scene::setup_scene
SetupScene(scene_nr, size) ==
    /\ pc = "idle"
    /\ fluid = <<>>
    /\ fluid' = <<SetupFluid(scene_nr, size[1], size[2])>>
    /\ scene_type' = SceneTypeOf(scene_nr)
    /\ inflow_velocity' = InflowOf(scene_nr)
    /\ obstacles' = IF scene_nr \in {1, 3} THEN <<TunnelCylinder(fluid'[1])>> ELSE <<>>
    /\ UNCHANGED <<radiators, step_counter, pc, trace, step_start, solve_log,
                   steps, scene_calls, ops, query, metrics_history, result>>

\* Scene::add_obstacle: the new obstacle is pushed and the whole list applied
AddObstacle(o) ==
    /\ pc = "idle"
    /\ fluid # <<>>
    /\ ops < MaxOps
    /\ steps + 3 * ops + 3 <= MaxSteps
    /\ obstacles' = Append(obstacles, o)
    /\ fluid' = <<ApplyToFluid(obstacles', F)>>
    /\ trace' = <<>>
    /\ ops' = ops + 1
    /\ UNCHANGED <<scene_type, inflow_velocity, radiators, step_counter, pc,
                   step_start, solve_log, steps, scene_calls, query, metrics_history,
                   result>>

\* Scene::clear_obstacles: the list is emptied and every cell reopened
ClearObstacles ==
    /\ pc = "idle"
    /\ fluid # <<>>
    /\ ops < MaxOps
    /\ steps + 3 * ops + 3 <= MaxSteps
    /\ obstacles' = <<>>
    /\ fluid' = <<[F EXCEPT !.s = [c \in DOMAIN F.s |-> One]]>>
    /\ trace' = <<>>
    /\ ops' = ops + 1
    /\ UNCHANGED <<scene_type, inflow_velocity, radiators, step_counter, pc,
                   step_start, solve_log, steps, scene_calls, query, metrics_history,
                   result>>

\* a radiator is put into the scene's fluid: RadiatorAnalyzer::add_radiator
\* and RadiatorAnalyzer::apply_radiator_to_fluid (run_single_simulation)
ApplyRadiator(r) ==
    /\ pc = "idle"
    /\ fluid # <<>>
    /\ ops < MaxOps
    /\ steps + 3 * ops + 3 <= MaxSteps
    /\ radiators' = Append(radiators, r)
    /\ fluid' = <<ApplyRadiatorToFluid(F, r)>>
    /\ trace' = <<>>
    /\ ops' = ops + 1
    /\ UNCHANGED <<scene_type, inflow_velocity, obstacles, step_counter, pc,
                   step_start, solve_log, steps, scene_calls, query, metrics_history,
                   result>>

\* Scene::simulate without a fluid: nothing happens.  (Scene::paused is false
\* from Scene::new on and nothing in the program sets it.)
SimulateIdle ==
    /\ pc = "idle"
    /\ fluid = <<>>
    /\ UNCHANGED vars

\* a step that advects the scalar before the velocity
PhaseOrderSmokeFirst ==
    << "integrate", "clear_pressure", "solve_incompressibility", "extrapolate",
       "advect_smoke", "advect_velocity", "enforce_boundary_conditions" >>

\* the calls of Fluid::simulate_with_boundaries, in their order
PhaseOrder ==
    << "integrate", "clear_pressure", "solve_incompressibility", "extrapolate",
       "advect_velocity", "advect_smoke", "enforce_boundary_conditions" >>

\* what follows phase number k: the next call, or the return to Scene::simulate
After(k) == IF k < Len(PhaseOrder) THEN PhaseOrder[k + 1] ELSE "return"

PhaseIndex(ph) == CHOOSE k \in 1 .. Len(PhaseOrder) : PhaseOrder[k] = ph

\* what one call of Fluid::simulate_with_boundaries does to the fluid
PhaseEffect(ph, f, inflow) ==
    CASE ph = "integrate" -> Integrate(f, SceneDt, SceneGravity)
      [] ph = "clear_pressure" -> ClearPressure(f)
      [] ph = "solve_incompressibility" ->
            SolveIncompressibility(f, NumIters, SceneDt, OverRelaxation)
      [] ph = "extrapolate" -> Extrapolate(f)
      [] ph = "advect_velocity" -> AdvectVelocity(f, SceneDt)
      [] ph = "advect_smoke" -> AdvectSmoke(f, SceneDt)
      [] ph = "enforce_boundary_conditions" -> EnforceBoundaryConditions(f, inflow)

\* Fluid::simulate_with_boundaries from start to end
SimulateWithBoundaries(f, inflow) ==
    LET RECURSIVE Run(_, _)
        Run(g, k) == IF k > Len(PhaseOrder) THEN g
                     ELSE Run(PhaseEffect(PhaseOrder[k], g, inflow), k + 1)
    IN  Run(f, 1)

\* how often Scene::simulate runs the boundary-layer heuristic
ThrottleEvery == 5

\* what Scene::simulate does once simulate_with_boundaries has returned
AfterStep ==
    IF scene_type = "WindTunnel"
    THEN /\ step_counter' = step_counter + 1
         /\ pc' = IF step_counter' % ThrottleEvery = 0 THEN "boundary_layer" ELSE "idle"
    ELSE /\ pc' = "idle"
         /\ UNCHANGED step_counter

\* one phase of a step; the first one is where a Scene::simulate call
\* starts.  The solver's run gives both the fluid and the record of the run.
Phase(ph) ==
    LET run == SolveRun(F, NumIters, SceneDt, OverRelaxation)
    IN
    /\ \/ pc = ph
       \/ pc = "idle" /\ ph = PhaseOrder[1] /\ fluid # <<>> /\ steps + 3 * ops < MaxSteps
    /\ fluid' = <<IF ph = "solve_incompressibility"
                   THEN Solved(F, run)
                   ELSE PhaseEffect(ph, F, inflow_velocity)>>
    /\ IF pc = "idle"
       THEN /\ trace' = <<ph>> /\ step_start' = fluid
            /\ steps' = steps + 1 /\ scene_calls' = scene_calls + 1
       ELSE trace' = Append(trace, ph) /\ UNCHANGED <<step_start, steps, scene_calls>>
    /\ solve_log' = IF ph = "solve_incompressibility"
                    THEN [changes |-> run.changes, div_by_zero |-> run.div_by_zero]
                    ELSE solve_log
    /\ IF After(PhaseIndex(ph)) = "return"
       THEN AfterStep
       ELSE pc' = After(PhaseIndex(ph)) /\ UNCHANGED step_counter
    /\ UNCHANGED <<scene_type, inflow_velocity, obstacles, radiators, ops, query,
                   metrics_history, result>>

StepIntegrate == Phase("integrate")

StepClearPressure == Phase("clear_pressure")

StepSolveIncompressibility == Phase("solve_incompressibility")

StepExtrapolate == Phase("extrapolate")

StepAdvectVelocity == Phase("advect_velocity")

StepAdvectSmoke == Phase("advect_smoke")

StepEnforceBoundaryConditions == Phase("enforce_boundary_conditions")

\* Fluid::apply_boundary_layer_control, called by Scene::simulate
StepBoundaryLayer ==
    /\ pc = "boundary_layer"
    /\ IF CoreRangeUnderflows(F)
       THEN /\ fluid' \in {<<g>> : g \in BoundaryLayerPanicOutcomes(F, inflow_velocity)}
            /\ pc' = "panicked"
       ELSE /\ fluid' = <<ApplyBoundaryLayerControl(F, inflow_velocity)>>
            /\ pc' = "idle"
    /\ trace' = Append(trace, "boundary_layer")
    /\ UNCHANGED <<scene_type, inflow_velocity, obstacles, radiators, step_counter,
                   step_start, solve_log, steps, scene_calls, ops, query,
                   metrics_history, result>>

Next ==
    \/ \E su \in Setups : SetupScene(su[1], <<su[2], su[3]>>)
    \/ \E o \in ObstacleChoices : AddObstacle(o)
    \/ ClearObstacles
    \/ \E r \in RadiatorChoices : ApplyRadiator(r)
    \/ SimulateIdle
    \/ StepIntegrate
    \/ StepClearPressure
    \/ StepSolveIncompressibility
    \/ StepExtrapolate
    \/ StepAdvectVelocity
    \/ StepAdvectSmoke
    \/ StepEnforceBoundaryConditions
    \/ StepBoundaryLayer

Spec == Init /\ [][Next]_vars

\* ------------------------------------------------------------------------
\* Several scenes, one after the other (run_radiator_angle_sweep)
\* ------------------------------------------------------------------------
\* `let mut scene = Scene::new()` in the place of the scene before.  The
\* static STEP_COUNTER of Scene::simulate is no field of Scene: it keeps its
\* value.  So does the RadiatorAnalyzer, which the caller holds.
NewScene ==
    /\ pc = "idle"
    /\ fluid # <<>>
    /\ fluid' = <<>>
    /\ scene_type' = "Default"
    /\ inflow_velocity' = Fix(5)
    /\ obstacles' = <<>>
    /\ scene_calls' = 0
    /\ trace' = <<>>
    /\ step_start' = <<>>
    /\ UNCHANGED <<radiators, step_counter, pc, solve_log, steps, ops, query,
                   metrics_history, result>>

\* the scenes set up one after the other are a wind tunnel of 13 columns and
\* a tank
NextScenes ==
    \/ NewScene
    \/ \E su \in {<<1, 11, 1>>, <<0, 4, 3>>} : SetupScene(su[1], <<su[2], su[3]>>)
    \/ StepIntegrate
    \/ StepClearPressure
    \/ StepSolveIncompressibility
    \/ StepExtrapolate
    \/ StepAdvectVelocity
    \/ StepAdvectSmoke
    \/ StepEnforceBoundaryConditions
    \/ StepBoundaryLayer

SpecScenes == Init /\ [][NextScenes]_vars

\* ------------------------------------------------------------------------
\* Sampling: Fluid::sample_field and RadiatorAnalyzer::sample_pressure_at_point
\* on a fluid whose every node holds a value of its own
\* ------------------------------------------------------------------------
\* interior cells per dimension of the sampled fluids
MaxSampleCells == 3

\* a fluid of num_x by num_y interior cells in which no two nodes of a field
\* hold the same value
PatternFluid(num_x, num_y) ==
    LET f == FluidNew(Density, num_x, num_y, GridH)
    IN  [f EXCEPT !.u = [c \in DOMAIN f.u |-> Fix(1 + c[1] + 7 * c[2])],
                  !.v = [c \in DOMAIN f.v |-> -Fix(2 + 7 * c[1] + c[2])],
                  !.m = [c \in DOMAIN f.m |-> Dec(1 + c[1] + 7 * c[2], 50)],
                  !.p = [c \in DOMAIN f.p |-> Fix(3 + 2 * c[1] + 13 * c[2])]]

\* query coordinates: every half cell from one cell before the domain to one
\* cell past it
QueryCoords(n) == {k * (GridH \div 2) : k \in -2 .. 2 * n + 2}

InitSample ==
    /\ fluid \in {<<PatternFluid(nx, ny)>> : nx, ny \in 1 .. MaxSampleCells}
    /\ scene_type = "Default"
    /\ inflow_velocity = Fix(5)
    /\ obstacles = <<>>
    /\ radiators = <<>>
    /\ step_counter = 0
    /\ pc = "idle"
    /\ trace = <<>>
    /\ step_start = <<>>
    /\ solve_log = NoLog
    /\ steps = 0
    /\ scene_calls = 0
    /\ ops = 0
    /\ query = NoQuery
    /\ result = NoResult
    /\ metrics_history = <<>>

\* a call of Fluid::sample_field(x, y, field); it takes &self
SampleFieldAt(field, x, y) ==
    /\ pc = "idle"
    /\ fluid # <<>>
    /\ query = NoQuery
    /\ query' = [kind |-> field, x |-> x, y |-> y]
    /\ result' = [value |-> SampleField(F, x, y, field),
                  reads |-> SampleReads(F, x, y, field)]
    /\ step_start' = fluid
    /\ UNCHANGED <<fluid, scene_type, inflow_velocity, obstacles, radiators,
                   step_counter, pc, trace, solve_log, steps, scene_calls, ops,
                   metrics_history>>

\* a call of RadiatorAnalyzer::sample_pressure_at_point(fluid, x, y); it
\* takes &Fluid
SamplePressureAt(x, y) ==
    /\ pc = "idle"
    /\ fluid # <<>>
    /\ query = NoQuery
    /\ query' = [kind |-> "Pressure", x |-> x, y |-> y]
    /\ result' = [value |-> SamplePressureAtPoint(F, x, y),
                  reads |-> LET k == SamplePressureIndex(F, x, y)
                            IN  {<<k.i0, k.j0>>, <<k.i1, k.j0>>,
                                 <<k.i1, k.j1>>, <<k.i0, k.j1>>}]
    /\ step_start' = fluid
    /\ UNCHANGED <<fluid, scene_type, inflow_velocity, obstacles, radiators,
                   step_counter, pc, trace, solve_log, steps, scene_calls, ops,
                   metrics_history>>

\* the caller is done with the returned value
DropResult ==
    /\ query # NoQuery
    /\ query' = NoQuery
    /\ result' = NoResult
    /\ UNCHANGED <<fluid, scene_type, inflow_velocity, obstacles, radiators,
                   step_counter, pc, trace, step_start, solve_log, steps, scene_calls,
                   ops, metrics_history>>

NextSample ==
    \/ \E field \in FieldType, x \in QueryCoords(F.num_x), y \in QueryCoords(F.num_y) :
            SampleFieldAt(field, x, y)
    \/ \E x \in QueryCoords(F.num_x), y \in QueryCoords(F.num_y) : SamplePressureAt(x, y)
    \/ DropResult

SpecSample == InitSample /\ [][NextSample]_vars

\* ------------------------------------------------------------------------
\* Radiator analysis (RadiatorAnalyzer::analyze_performance and what it calls)
\* ------------------------------------------------------------------------
\* std::f64::consts::PI
Pi == Dec(314159, 100000)

\* the cosine series on 0 .. pi/2
CosSeries(x) ==
    LET x2 == FMul(x, x)
        x4 == FMul(x2, x2)
        x6 == FMul(x4, x2)
    IN  One - x2 \div 2 + x4 \div 24 - x6 \div 720

\* f64::cos of a fixed-point number of radians
Cos(x) ==
    LET a == Abs(x) % (2 * Pi)
        b == IF a > Pi THEN 2 * Pi - a ELSE a
    IN  IF 2 * b > Pi THEN -CosSeries(Pi - b) ELSE CosSeries(b)

\* f64::sin
Sin(x) == Cos(x - Pi \div 2)

\* the centre of segment i of `samples`, as a part of the line: -0.5 .. 0.5
SegmentCentre(i, samples) == FDiv(Fix(i) + One \div 2, Fix(samples)) - One \div 2

\* the samples calculate_mass_flow takes along the radiator height
MassFlowSamples == 20

\* the point on the radiator face of sample i
MassFlowFace(r, i) ==
    LET sample_y_local == FMul(SegmentCentre(i, MassFlowSamples), r.height)
    IN  [ x |-> r.x - FMul(sample_y_local, SinQ(r.angle)),
          y |-> r.y + FMul(sample_y_local, CosQ(r.angle)) ]

\* the domain test of calculate_mass_flow: a point that fails it is skipped
FaceInDomain(f, pt) ==
    ~ \/ pt.x < 0
      \/ pt.x >= FMul(Fix(f.num_x), f.h)
      \/ pt.y < 0
      \/ pt.y >= FMul(Fix(f.num_y), f.h)

\* u and v as Fluid::sample_field gives them at a point
SampleVelocity(f, x, y) ==
    [u |-> SampleField(f, x, y, "U"), v |-> SampleField(f, x, y, "V")]

\* normal_velocity * area_per_sample * fluid.h * fluid.density
MassFlowTerm(f, r, velocity) ==
    LET normal_velocity == FMul(velocity.u, CosQ(r.angle))
                           + FMul(velocity.v, SinQ(r.angle))
        area_per_sample == FDiv(r.height, Fix(MassFlowSamples))
    IN  FMul(FMul(FMul(normal_velocity, area_per_sample), f.h), f.density)

\* what the sample at pt adds to mass_flow
MassFlowAt(f, r, pt) ==
    IF FaceInDomain(f, pt) THEN MassFlowTerm(f, r, SampleVelocity(f, pt.x, pt.y))
    ELSE 0

\* what sample i adds to mass_flow
MassFlowContribution(f, r, i) == MassFlowAt(f, r, MassFlowFace(r, i))

\* mass_flow after the first n samples
RECURSIVE MassFlowSum(_, _, _)
MassFlowSum(f, r, n) ==
    IF n = 0 THEN 0
    ELSE MassFlowSum(f, r, n - 1) + MassFlowContribution(f, r, n - 1)

\* RadiatorAnalyzer::calculate_mass_flow
CalculateMassFlow(f, r) == Abs(MassFlowSum(f, r, MassFlowSamples))

\* sample i of sample_pressure_line_average
PressureLinePoint(x, y, length, angle, i) ==
    LET t == SegmentCentre(i, 10)
    IN  [ x |-> x - FMul(FMul(t, length), SinQ(angle)),
          y |-> y + FMul(FMul(t, length), CosQ(angle)) ]

\* its bounds check
PressurePointValid(f, pt) ==
    /\ pt.x >= f.h
    /\ pt.x < FMul(Fix(f.num_x) - One, f.h)
    /\ pt.y >= f.h
    /\ pt.y < FMul(Fix(f.num_y) - One, f.h)

\* what the sample at pt adds to pressure_sum (count = FALSE) or to
\* valid_samples (count = TRUE)
PressureLineAt(f, pt, count) ==
    IF ~PressurePointValid(f, pt) THEN 0
    ELSE IF count THEN 1
    ELSE SamplePressureAtPoint(f, pt.x, pt.y)

PressureLineTerm(f, x, y, length, angle, i, count) ==
    PressureLineAt(f, PressureLinePoint(x, y, length, angle, i), count)

\* pressure_sum, or valid_samples, after the first n samples
RECURSIVE PressureLineAcc(_, _, _, _, _, _, _)
PressureLineAcc(f, x, y, length, angle, n, count) ==
    IF n = 0 THEN 0
    ELSE PressureLineAcc(f, x, y, length, angle, n - 1, count)
         + PressureLineTerm(f, x, y, length, angle, n - 1, count)

\* pressure_sum / valid_samples, 0 without a valid sample
LineAverage(pressure_sum, valid_samples) ==
    IF valid_samples > 0 THEN FDiv(pressure_sum, Fix(valid_samples)) ELSE 0

\* RadiatorAnalyzer::sample_pressure_line_average
SamplePressureLineAverage(f, x, y, length, angle) ==
    LineAverage(PressureLineAcc(f, x, y, length, angle, 10, FALSE),
                PressureLineAcc(f, x, y, length, angle, 10, TRUE))

\* the pressure drop between the points probe_distance before and after the
\* radiator
PressureDropAt(f, r, probe_distance) ==
    SamplePressureLineAverage(f, r.x - FMul(probe_distance, CosQ(r.angle)),
                              r.y - FMul(probe_distance, SinQ(r.angle)),
                              r.height, r.angle)
    - SamplePressureLineAverage(f, r.x + FMul(probe_distance, CosQ(r.angle)),
                                r.y + FMul(probe_distance, SinQ(r.angle)),
                                r.height, r.angle)

\* RadiatorAnalyzer::calculate_pressure_drop
CalculatePressureDrop(f, r) ==
    PressureDropAt(f, r, FMul(r.width, One \div 2) + FMul(Fix(2), f.h))

\* pressure * normal * ds along x and y
ForceOf(pressure, normal_x, normal_y, ds) ==
    [ force_x |-> FMul(FMul(pressure, normal_x), ds),
      force_y |-> FMul(FMul(pressure, normal_y), ds) ]

\* the force at the perimeter point that lies (dx, dy) from the centre in
\* the radiator's axes
ForceAt(f, r, dx, dy) ==
    ForceOf(SamplePressureAtPoint(f,
                r.x + FMul(dx, CosQ(r.angle)) - FMul(dy, SinQ(r.angle)),
                r.y + FMul(dx, SinQ(r.angle)) + FMul(dy, CosQ(r.angle))),
            FMul(Cos(dx), CosQ(r.angle)) - FMul(Sin(dy), SinQ(r.angle)),
            FMul(Cos(dx), SinQ(r.angle)) + FMul(Sin(dy), CosQ(r.angle)),
            FDiv(FMul(Fix(2), Pi), Fix(100)))

\* the perimeter point at the angle t
ForceAtAngle(f, r, t) ==
    ForceAt(f, r, FMul(FMul(r.width, One \div 2), Cos(t)),
            FMul(FMul(r.height, One \div 2), Sin(t)))

\* force_x and force_y of perimeter sample i of calculate_forces
ForceContribution(f, r, i) ==
    ForceAtAngle(f, r, FMul(FMul(FDiv(Fix(i), Fix(100)), Fix(2)), Pi))

\* what samples lo .. lo + n - 1 add to drag_force (axis = "force_x") or to
\* lift_force (axis = "force_y")
RECURSIVE ForceRun(_, _, _, _, _)
ForceRun(f, r, lo, n, axis) ==
    IF n = 0 THEN 0
    ELSE ForceRun(f, r, lo, n - 1, axis) + ForceContribution(f, r, lo + n - 1)[axis]

\* what the first n runs of ten samples add; sums of fixed-point numbers
\* are exact, so the hundred samples are summed run by run
RECURSIVE ForceSum(_, _, _, _)
ForceSum(f, r, n, axis) ==
    IF n = 0 THEN 0
    ELSE ForceSum(f, r, n - 1, axis) + ForceRun(f, r, 10 * (n - 1), 10, axis)

\* RadiatorAnalyzer::calculate_forces
CalculateForces(f, r) ==
    [ drag_force |-> ForceSum(f, r, 10, "force_x"),
      lift_force |-> ForceSum(f, r, 10, "force_y") ]

\* (u * u + v * v).sqrt()
Speed(velocity) == ISqrt(velocity.u * velocity.u + velocity.v * velocity.v)

\* the speed sampled 0.05 from the radiator centre along its angle, before
\* it (side = -1) or after it (side = 1)
SpeedBeside(f, r, side) ==
    Speed(SampleVelocity(f, r.x + side * FMul(Dec(5, 100), CosQ(r.angle)),
                         r.y + side * FMul(Dec(5, 100), SinQ(r.angle))))

\* RadiatorAnalyzer::calculate_inlet_velocity
CalculateInletVelocity(f, r) == SpeedBeside(f, r, -1)

\* RadiatorAnalyzer::calculate_outlet_velocity
CalculateOutletVelocity(f, r) == SpeedBeside(f, r, 1)

\* the RadiatorMetrics record made of the values calculated
MetricsOf(angle, density, mass_flow, pressure_drop, forces, inlet_velocity, outlet_velocity) ==
    [ angle_degrees |-> Fix(90 * angle),
      mass_flow_rate |-> mass_flow,
      pressure_drop |-> pressure_drop,
      inlet_velocity |-> inlet_velocity,
      outlet_velocity |-> outlet_velocity,
      drag_force |-> forces.drag_force,
      lift_force |-> forces.lift_force,
      cooling_efficiency |-> Min(FDiv(mass_flow, mass_flow + Dec(1, 10)), One),
      fan_power_required |-> FMul(pressure_drop, FDiv(mass_flow, density)) ]

\* the record analyze_performance builds
Metrics(f, r) ==
    MetricsOf(r.angle, f.density, CalculateMassFlow(f, r), CalculatePressureDrop(f, r),
              CalculateForces(f, r), CalculateInletVelocity(f, r),
              CalculateOutletVelocity(f, r))

PushMetricsReplace(history, metrics) == <<metrics>>

\* self.metrics_history.push(metrics.clone())
PushMetrics(history, metrics) == Append(history, metrics)

\* the end of analyze_performance: the record is pushed and returned
RecordMetrics(r, metrics) ==
    /\ query' = [kind |-> "Analyze", radiator |-> r]
    /\ metrics_history' = PushMetrics(metrics_history, metrics)
    /\ result' = [value |-> metrics, reads |-> {}]

\* a call of analyze_performance(&mut self, fluid: &Fluid, radiator); the
\* query holds the radiator, the result the record returned
AnalyzePerformance(r) ==
    /\ pc = "idle"
    /\ fluid # <<>>
    /\ query = NoQuery
    /\ Len(metrics_history) < MaxOps
    /\ RecordMetrics(r, Metrics(F, r))
    /\ UNCHANGED <<fluid, scene_type, inflow_velocity, obstacles, radiators,
                   step_counter, pc, trace, step_start, solve_log, steps, scene_calls,
                   ops>>

\* a flow to the right in the lower rows and to the left in the upper rows
ShearFluid ==
    LET f == PatternFluid(4, 3)
    IN  [f EXCEPT !.u = [c \in DOMAIN f.u |-> IF c[2] <= 2 THEN Fix(4) ELSE -Fix(4)],
                  !.v = [c \in DOMAIN f.v |-> IF c[1] <= 2 THEN Fix(2) ELSE -Fix(2)]]

AnalyzeGrids == {PatternFluid(4, 3), ShearFluid, FluidNew(Density, 4, 3, GridH)}

\* radiators upright and lying, inside the domain and reaching out of it
AnalyzeRadiators ==
    { [ x |-> g[1], y |-> g[2], width |-> Dec(25, 100), height |-> g[3],
        angle |-> a, porosity |-> Dec(8, 10), resistance |-> Fix(100) ] :
        g \in {<<3 * GridH, 2 * GridH + GridH \div 2, One>>,
               <<GridH, 4 * GridH, Fix(3)>>,
               <<4 * GridH, 2 * GridH, One \div 2>>},
        a \in {0, 1} }

InitAnalyze ==
    /\ fluid \in {<<g>> : g \in AnalyzeGrids}
    /\ scene_type = "Default"
    /\ inflow_velocity = Fix(5)
    /\ obstacles = <<>>
    /\ radiators = <<>>
    /\ step_counter = 0
    /\ pc = "idle"
    /\ trace = <<>>
    /\ step_start = <<>>
    /\ solve_log = NoLog
    /\ steps = 0
    /\ scene_calls = 0
    /\ ops = 0
    /\ query = NoQuery
    /\ result = NoResult
    /\ metrics_history = <<>>

NextAnalyze ==
    \/ \E r \in AnalyzeRadiators : AnalyzePerformance(r)
    \/ DropResult

SpecAnalyze == InitAnalyze /\ [][NextAnalyze]_vars

\* ------------------------------------------------------------------------
\* Obstacles and radiators put into a fluid of known fields
\* (Scene::add_obstacle, RadiatorAnalyzer::apply_radiator_to_fluid)
\* ------------------------------------------------------------------------
\* the fluids the obstacles are put into, 4 by 3 interior cells, every cell
\* open: one whose nodes all hold values of their own, and one at rest; and
\* the first with rows 0 and num_y - 1 solid
WalledFluid(f) == [f EXCEPT !.s = SetRow(SetRow(f.s, f.num_y - 1, 0), 0, 0)]

ApplyGrids ==
    {PatternFluid(4, 3), FluidNew(Density, 4, 3, GridH), WalledFluid(PatternFluid(4, 3))}

\* the obstacles handed to Scene::add_obstacle: squares, solid and porous, a
\* solid circle around the v face (2, 2), and a porous rectangle of porosity
\* 0.5 turned by a quarter, which holds the centre and the u faces of cell
\* (1, 1) and none of its v faces.  The squares have their centres at the u
\* face (2, 1) and at the centre of cell (4, 3), the last interior column and
\* row; their sides are half a cell and two cells and a half; the porous ones
\* block fully (porosity 0) or not at all (porosity 1).
ApplyObstacles ==
    LET centres == {<<2 * GridH, GridH + GridH \div 2>>,
                    <<4 * GridH + GridH \div 2, 3 * GridH + GridH \div 2>>}
        sizes == {GridH \div 2, 2 * GridH + GridH \div 2}
    IN  {NewRectangle(c[1], c[2], w, w, 0) : c \in centres, w \in sizes}
        \cup {NewPorousRectangle(c[1], c[2], w, w, 0, po, Fix(100)) :
                    c \in centres, w \in sizes, po \in {0, One}}
        \cup {NewCircle(2 * GridH + GridH \div 2, 2 * GridH, GridH \div 4),
              NewPorousRectangle(GridH + GridH \div 2, GridH + GridH \div 2, GridH \div 2,
                                 GridH + GridH \div 2, 1, One \div 2, Fix(100))}

\* the radiators applied: porosity 0.8, over cell (2, 1) alone and over the
\* cells (1 .. 2, 1 .. 2)
ApplyRadiators ==
    { [ x |-> 2 * GridH + GridH \div 2, y |-> GridH + GridH \div 2,
        width |-> GridH \div 2, height |-> GridH \div 2, angle |-> 0,
        porosity |-> Dec(8, 10), resistance |-> Fix(100) ],
      [ x |-> 2 * GridH, y |-> 2 * GridH, width |-> 2 * GridH, height |-> 2 * GridH,
        angle |-> 1, porosity |-> Dec(8, 10), resistance |-> Fix(100) ] }

\* step_start holds the fluid as it was before the first obstacle or radiator
InitApply ==
    /\ fluid \in {<<g>> : g \in ApplyGrids}
    /\ step_start = fluid
    /\ scene_type = "Default"
    /\ inflow_velocity = Fix(5)
    /\ obstacles = <<>>
    /\ radiators = <<>>
    /\ step_counter = 0
    /\ pc = "idle"
    /\ trace = <<>>
    /\ solve_log = NoLog
    /\ steps = 0
    /\ scene_calls = 0
    /\ ops = 0
    /\ query = NoQuery
    /\ result = NoResult
    /\ metrics_history = <<>>

NextApply ==
    \/ \E o \in ApplyObstacles : AddObstacle(o)
    \/ \E r \in ApplyRadiators : ApplyRadiator(r)

SpecApply == InitApply /\ [][NextApply]_vars

\* ------------------------------------------------------------------------
\* Properties
\* ------------------------------------------------------------------------
IsPrefix(s, t) == Len(s) <= Len(t) /\ \A k \in 1 .. Len(s) : s[k] = t[k]

\* the step as the specification describes it
ExpectedPhases ==
    << "integrate", "clear_pressure", "solve_incompressibility", "extrapolate",
       "advect_velocity", "advect_smoke", "enforce_boundary_conditions",
       "boundary_layer" >>

\* C1: the phases a simulate call has run so far are always the first ones of
\* integrate, clear pressure, pressure projection, extrapolate, advect
\* velocity, advect scalar, enforce boundary conditions, boundary-layer
\* heuristic, each once; the phase about to run is the next of that list; a
\* call that has returned has run the first seven, and the heuristic only
\* after them and only in a wind tunnel.
C1_PhasesInFixedOrder ==
    /\ IsPrefix(trace, ExpectedPhases)
    /\ pc \notin {"idle", "panicked"} =>
            Len(trace) < Len(ExpectedPhases) /\ pc = ExpectedPhases[Len(trace) + 1]
    /\ pc = "idle" /\ trace # <<>> => Len(trace) >= 7
    /\ Len(trace) = 8 => scene_type = "WindTunnel"

\* a simulate call has returned after all eight phases
C1_Witness == pc = "idle" /\ trace = ExpectedPhases

C3_NoSlipAfterEnforce ==
    (trace # <<>> /\ trace[Len(trace)] = "enforce_boundary_conditions") =>
        \A i \in 0 .. F.num_x - 1, j \in 0 .. F.num_y - 1 :
            F.s[<<i, j>>] = 0 =>
                /\ F.u[<<i, j>>] = 0
                /\ F.v[<<i, j>>] = 0
                /\ i + 1 <= F.num_x - 1 => F.u[<<i + 1, j>>] = 0
                /\ j + 1 <= F.num_y - 1 => F.v[<<i, j + 1>>] = 0

\* C4: every value of the openness field lies in [0, 1].
C4_OpennessInUnitInterval ==
    fluid # <<>> => \A c \in DOMAIN F.s : 0 <= F.s[c] /\ F.s[c] <= One

\* a pressure field a step could have started with instead of its own
AltPressures(f) == { [c \in DOMAIN f.p |-> Fix(3 + 2 * c[1] + 13 * c[2])] }

\* C5: when simulate_with_boundaries has run through, p, u, v and m are what
\* the same call yields from the same fluid with another pressure field on
\* entry, and p is 0 at every ghost cell, every cell with s = 0 and every
\* cell with zero neighbour-openness sum.
C5_PressureResetEachStep ==
    (step_start # <<>> /\ trace # <<>>
        /\ trace[Len(trace)] = "enforce_boundary_conditions") =>
        /\ \A q \in AltPressures(F) :
            LET g == SimulateWithBoundaries([step_start[1] EXCEPT !.p = q],
                                            inflow_velocity)
            IN  g.p = F.p /\ g.u = F.u /\ g.v = F.v /\ g.m = F.m
        /\ \A c \in DOMAIN F.p :
            (\/ c[1] \in {0, F.num_x - 1}
             \/ c[2] \in {0, F.num_y - 1}
             \/ F.s[c] = 0
             \/ F.s[<<c[1] - 1, c[2]>>] + F.s[<<c[1] + 1, c[2]>>]
                    + F.s[<<c[1], c[2] - 1>>] + F.s[<<c[1], c[2] + 1>>] = 0) =>
                F.p[c] = 0

\* a step that started with a pressure field left by the step before has run
\* through, and the solver updated some cells and skipped an interior one
C5_Witness ==
    /\ step_start # <<>> /\ trace # <<>>
    /\ trace[Len(trace)] = "enforce_boundary_conditions"
    /\ \E c \in DOMAIN F.p : step_start[1].p[c] # 0
    /\ \E c \in DOMAIN F.p : F.p[c] # 0 /\ F.p[c] # step_start[1].p[c]
    /\ \E i \in 1 .. F.num_x - 2, j \in 1 .. F.num_y - 2 :
            F.s[<<i, j>>] = 0 /\ step_start[1].p[<<i, j>>] # 0

\* C6 (as the code has it): a solver run makes at most num_iters sweeps; it
\* never stops during its first 4 sweeps; it stops at the end of the first
\* sweep from the 5th on whose largest |p_change| is below 1e-6; otherwise it
\* makes exactly num_iters sweeps.
C6_StopsFromFifthSweep ==
    LET ch == solve_log.changes
        n == Len(ch)
    IN  n > 0 =>
            /\ n <= NumIters
            /\ \A k \in 1 .. n - 1 : ~(k >= 5 /\ BelowMicro(ch[k]))
            /\ n < NumIters => n >= 5 /\ BelowMicro(ch[n])

\* a solver run whose first sweeps changed the pressure has stopped early
C6_Witness ==
    LET ch == solve_log.changes
    IN  /\ Len(ch) >= 5
        /\ Len(ch) < NumIters
        /\ BelowMicro(ch[Len(ch)])
        /\ ~BelowMicro(ch[1])

\* C6 as claimed: the same with the 4th sweep as the first one that can stop
\* the run.
C6_StopsFromFourthSweep ==
    LET ch == solve_log.changes
        n == Len(ch)
    IN  n > 0 =>
            /\ n <= NumIters
            /\ \A k \in 1 .. n - 1 : ~(k >= 4 /\ BelowMicro(ch[k]))
            /\ n < NumIters => n >= 4 /\ BelowMicro(ch[n])

\* C7: when a simulate call has returned, u is the inflow velocity in columns
\* 0 and 1 of the interior rows, u and v are 0 on rows 0 and num_y - 1, and
\* column num_x - 1 equals column num_x - 2 for u and v.
C7_BoundaryConditionsAfterStep ==
    (pc = "idle" /\ Len(trace) >= Len(PhaseOrder)) =>
        /\ \A j \in 1 .. F.num_y - 2 :
                F.u[<<0, j>>] = inflow_velocity /\ F.u[<<1, j>>] = inflow_velocity
        /\ \A i \in 0 .. F.num_x - 1 :
                /\ F.u[<<i, 0>>] = 0 /\ F.v[<<i, 0>>] = 0
                /\ F.u[<<i, F.num_y - 1>>] = 0 /\ F.v[<<i, F.num_y - 1>>] = 0
        /\ \A j \in 0 .. F.num_y - 1 :
                /\ F.u[<<F.num_x - 1, j>>] = F.u[<<F.num_x - 2, j>>]
                /\ F.v[<<F.num_x - 1, j>>] = F.v[<<F.num_x - 2, j>>]

\* x clamped into [h, (n - 1) * h]
ClampInto(x, h, n) == IF x < h THEN h ELSE IF x > (n - 1) * h THEN (n - 1) * h ELSE x

\* C8: whatever the field kind and the query coordinates, a call of
\* sample_field has read only elements with indices in [0, num_x - 1] x
\* [0, num_y - 1], has left the fluid as it was, and has returned what the
\* call with x clamped into [h, (num_x - 1) * h] and y into
\* [h, (num_y - 1) * h] returns.
C8_SampleFieldClamped ==
    query.kind \in FieldType =>
        /\ result.reads \subseteq (0 .. F.num_x - 1) \X (0 .. F.num_y - 1)
        /\ fluid = step_start
        /\ result.value = SampleField(F, ClampInto(query.x, F.h, F.num_x),
                                      ClampInto(query.y, F.h, F.num_y), query.kind)

\* a query left of and above the domain has returned a value
C8_Witness ==
    /\ query.kind \in FieldType
    /\ query.x < 0
    /\ query.y > F.num_y * F.h
    /\ result.value # 0

\* the location of node (i, j) of a field kind
NodeQuery(kind, i, j, h) ==
    [ kind |-> kind,
      x |-> IF kind = "U" THEN i * h ELSE i * h + h \div 2,
      y |-> IF kind = "V" THEN j * h ELSE j * h + h \div 2 ]

Stored(f, kind, i, j) ==
    IF kind = "Pressure" THEN f.p[<<i, j>>] ELSE FieldData(f, kind)[<<i, j>>]

\* the nodes whose location the clamp of sample_field leaves where it is
InsideClamp(f, kind, i, j) ==
    /\ 1 <= i /\ i <= (IF kind = "U" THEN f.num_x - 1 ELSE f.num_x - 2)
    /\ 1 <= j /\ j <= (IF kind = "V" THEN f.num_y - 1 ELSE f.num_y - 2)

C10_PressureExactAtCellCentre ==
    \A i \in 0 .. F.num_x - 1, j \in 0 .. F.num_y - 1 :
        query = NodeQuery("Pressure", i, j, F.h) =>
            result.value = Stored(F, "Pressure", i, j)

\* ------------------------------------------------------------------------
\* Properties of obstacles and radiators put into a fluid
\* ------------------------------------------------------------------------
\* the fluid before the first obstacle or radiator was put in
Before == step_start[1]

\* exactly one obstacle has been applied, and nothing else
OneObstacleApplied == Len(obstacles) = 1 /\ radiators = <<>> /\ steps = 0

AllOpen(f) == \A c \in DOMAIN f.s : f.s[c] = One

\* C11: a porous obstacle of porosity 1 applied to a fluid whose cells are
\* all open leaves u, v and s as they were.
C11_PorosityOneChangesNothing ==
    (/\ OneObstacleApplied
     /\ obstacles[1].is_porous
     /\ obstacles[1].porosity = One
     /\ AllOpen(Before)) =>
        F.u = Before.u /\ F.v = Before.v /\ F.s = Before.s

\* the same geometry as a non-porous obstacle
SolidOf(o) == [o EXCEPT !.is_porous = FALSE, !.porosity = 0, !.resistance = 0]

\* C12: a porous obstacle of porosity 0 leaves s, u, v and m as the same
\* geometry applied as a solid obstacle leaves them.
C12_PorosityZeroAsSolid ==
    (OneObstacleApplied /\ obstacles[1].is_porous /\ obstacles[1].porosity = 0) =>
        LET solid == ApplyToFluid(<<SolidOf(obstacles[1])>>, Before)
        IN  F.s = solid.s /\ F.u = solid.u /\ F.v = solid.v /\ F.m = solid.m

CentreInside(o, f, c) == ContainsPoint(o, CentreX(f.h, c[1]), CentreX(f.h, c[2]))

\* C13: after a solid obstacle has been applied, every interior cell whose
\* centre is inside it has s = 0 and m = 0, and every cell whose centre is
\* outside it has the s and m it had.
C13_SolidMarksCoveredCells ==
    (OneObstacleApplied /\ ~obstacles[1].is_porous) =>
        /\ \A i \in 1 .. F.num_x - 2, j \in 1 .. F.num_y - 2 :
                CentreInside(obstacles[1], F, <<i, j>>) =>
                    F.s[<<i, j>>] = 0 /\ F.m[<<i, j>>] = 0
        /\ \A c \in DOMAIN F.s :
                ~CentreInside(obstacles[1], F, c) =>
                    F.s[c] = Before.s[c] /\ F.m[c] = Before.m[c]

UFaceInside(o, f, i, j) == ContainsPoint(o, FaceX(f.h, i), CentreX(f.h, j))

VFaceInside(o, f, i, j) == ContainsPoint(o, CentreX(f.h, i), FaceX(f.h, j))

\* C14: after the list of obstacles has been applied, every u and v face of
\* 1 .. num_x - 2 by 1 .. num_y - 2 that adjoins a cell with s = 0, or whose
\* position is inside an obstacle of the list, is 0.
C14_NoSlipAfterApply ==
    (obstacles # <<>> /\ radiators = <<>> /\ steps = 0) =>
        \A i \in 1 .. F.num_x - 2, j \in 1 .. F.num_y - 2 :
            /\ (\/ F.s[<<i - 1, j>>] = 0
                \/ F.s[<<i, j>>] = 0
                \/ \E k \in 1 .. Len(obstacles) : UFaceInside(obstacles[k], F, i, j))
                    => F.u[<<i, j>>] = 0
            /\ (\/ F.s[<<i, j - 1>>] = 0
                \/ F.s[<<i, j>>] = 0
                \/ \E k \in 1 .. Len(obstacles) : VFaceInside(obstacles[k], F, i, j))
                    => F.v[<<i, j>>] = 0

\* two obstacles have been applied; a u face that held a velocity lies in the
\* first and not in the second, between two cells that are still open
C14_Witness ==
    /\ Len(obstacles) = 2 /\ radiators = <<>> /\ steps = 0
    /\ \E i \in 1 .. F.num_x - 2, j \in 1 .. F.num_y - 2 :
            /\ UFaceInside(obstacles[1], F, i, j)
            /\ ~UFaceInside(obstacles[2], F, i, j)
            /\ F.s[<<i - 1, j>>] # 0 /\ F.s[<<i, j>>] # 0
            /\ Before.u[<<i, j>>] # 0
            /\ F.u[<<i, j>>] = 0

\* C15: when the first simulate call after a setup that applied a solid
\* circle has returned, every u and v face whose position is inside the
\* circle is 0.
C15_FacesInsideCircleZeroAfterStep ==
    (/\ pc = "idle" /\ steps = 1 /\ ops = 0 /\ trace # <<>>
     /\ Len(obstacles) = 1 /\ obstacles[1].shape = "Circle") =>
        \A c \in DOMAIN F.u :
            /\ UFaceInside(obstacles[1], F, c[1], c[2]) => F.u[c] = 0
            /\ VFaceInside(obstacles[1], F, c[1], c[2]) => F.v[c] = 0

\* C16: in a scene that has a radiator, a simulate call that has come to the
\* pressure projection has applied the radiator's resistance before it.
C16_RadiatorResistanceBeforeProjection ==
    radiators # <<>> =>
        \A k \in 1 .. Len(trace) :
            trace[k] = "solve_incompressibility" =>
                \E a \in 1 .. k - 1 : trace[a] = "apply_radiator_to_fluid"

\* C17: after a radiator has been applied, every interior cell whose centre
\* is inside its rectangle has the radiator's porosity as its openness.
C17_RadiatorSetsOpenness ==
    (Len(radiators) = 1 /\ obstacles = <<>> /\ steps = 0) =>
        \A i \in 1 .. F.num_x - 2, j \in 1 .. F.num_y - 2 :
            InRadiator(F, radiators[1], i, j) => F.s[<<i, j>>] = radiators[1].porosity

WellFormed(o) == o.porosity >= 0 /\ o.porosity <= One /\ o.resistance >= 0

\* C18: no porous obstacle and no radiator that the scene holds has a
\* porosity outside [0, 1] or a negative resistance.
C18_MalformedParametersRejected ==
    /\ \A k \in 1 .. Len(obstacles) : obstacles[k].is_porous => WellFormed(obstacles[k])
    /\ \A k \in 1 .. Len(radiators) : WellFormed(radiators[k])

\* C19: no fluid exists that was built with num_x = 0 or num_y = 0 (its
\* fields would be 2 wide or 2 high, the ghost cells alone).
C19_ZeroDimensionRejected ==
    fluid # <<>> => F.num_x > 2 /\ F.num_y > 2

\* C20: no simulate call ends in a panic: every index it uses is inside the
\* fields and no unsigned subtraction goes below zero.
C20_StepNeverPanics == pc # "panicked"

\* ------------------------------------------------------------------------
\* Properties of the whole program
\* ------------------------------------------------------------------------
\* C21: the boundary-layer heuristic runs on the 5th, 10th, ... simulate call
\* of a wind-tunnel scene, counted for that scene alone, and on no other
\* call; no scene of another type runs it.
C21_HeuristicEveryFifthCallOfScene ==
    /\ pc = "boundary_layer" =>
            scene_type = "WindTunnel" /\ scene_calls % ThrottleEvery = 0
    /\ (pc = "idle" /\ Len(trace) = Len(PhaseOrder) /\ scene_type = "WindTunnel") =>
            scene_calls % ThrottleEvery # 0

\* C22: analyze_performance leaves the fluid as it is, appends exactly one
\* record to metrics_history without touching the records before it, and
\* returns the record it appended.
C22_AnalyzeAppendsOneRecord ==
    [][/\ IsPrefix(metrics_history, metrics_history')
       /\ (query = NoQuery /\ query'.kind = "Analyze") =>
            /\ fluid' = fluid
            /\ Len(metrics_history') = Len(metrics_history) + 1
            /\ result'.value = metrics_history'[Len(metrics_history')]]_vars

\* a second analysis has been recorded after a first one of another result
C22_Witness ==
    /\ query.kind = "Analyze"
    /\ Len(metrics_history) = 2
    /\ metrics_history[1] # metrics_history[2]
    /\ metrics_history[2] = result.value

\* the sum over the samples inside the domain of the magnitude of what each
\* adds
RECURSIVE MagnitudeSum(_, _, _)
MagnitudeSum(f, r, n) ==
    IF n = 0 THEN 0
    ELSE MagnitudeSum(f, r, n - 1) + Abs(MassFlowContribution(f, r, n - 1))

\* C23: calculate_mass_flow returns the sum of the magnitudes of what the
\* samples inside the domain add; flows in opposite directions add up.
C23_MassFlowSumsMagnitudes ==
    query.kind = "Analyze" =>
        result.value.mass_flow_rate = MagnitudeSum(F, query.radiator, MassFlowSamples)

\* u[i+1,j] - u[i,j] + v[i,j+1] - v[i,j]
Divergence(f, i, j) ==
    f.u[<<i + 1, j>>] - f.u[<<i, j>>] + f.v[<<i, j + 1>>] - f.v[<<i, j>>]

\* |x| < 1e-4 for a fixed-point x
BelowTolerance(x) == Abs(x) * 10000 < Scale

\* every interior cell open, no obstacle and no radiator put in
ObstacleFree ==
    /\ obstacles = <<>>
    /\ radiators = <<>>
    /\ \A i \in 1 .. F.num_x - 2, j \in 1 .. F.num_y - 2 : F.s[<<i, j>>] = One

\* C24: when the solver has made all its num_iters sweeps on a field without
\* obstacles, the divergence of every interior open cell is below 1e-4.
C24_DivergenceBelowToleranceAtCap ==
    (pc = "extrapolate" /\ Len(solve_log.changes) = NumIters /\ ObstacleFree) =>
        \A i \in 1 .. F.num_x - 2, j \in 1 .. F.num_y - 2 :
            BelowTolerance(Divergence(F, i, j))

\* what advect_velocity gives when every new value is computed from a copy
\* of u and v made on entry
FrozenAdvectVelocity(f, dt) ==
    LET h2 == FMul(One \div 2, f.h)
        new_u == [c \in DOMAIN f.u |->
            IF AdvectsU(f, c[1], c[2])
            THEN LET x == FMul(Fix(c[1]), f.h)
                     y == FMul(Fix(c[2]), f.h) + h2
                     u == f.u[c]
                     v == AvgV(f, c[1], c[2])
                 IN  SampleField(f, x - FMul(dt, u), y - FMul(dt, v), "U")
            ELSE f.u[c]]
        new_v == [c \in DOMAIN f.v |->
            IF AdvectsV(f, c[1], c[2])
            THEN LET x == FMul(Fix(c[1]), f.h) + h2
                     y == FMul(Fix(c[2]), f.h)
                     u == AvgU(f, c[1], c[2])
                     v == f.v[c]
                 IN  SampleField(f, x - FMul(dt, u), y - FMul(dt, v), "V")
            ELSE f.v[c]]
    IN  [f EXCEPT !.new_u = new_u, !.new_v = new_v, !.u = new_u, !.v = new_v]

\* the same for advect_smoke
FrozenAdvectSmoke(f, dt) ==
    LET h2 == FMul(One \div 2, f.h)
        new_m == [c \in DOMAIN f.m |->
            IF /\ c[1] \in 1 .. f.num_x - 2
               /\ c[2] \in 1 .. f.num_y - 2
               /\ f.s[c] # 0
            THEN LET x == FMul(Fix(c[1]), f.h) + h2
                     y == FMul(Fix(c[2]), f.h) + h2
                     u == FMul(f.u[c] + f.u[<<c[1] + 1, c[2]>>], One \div 2)
                     v == FMul(f.v[c] + f.v[<<c[1], c[2] + 1>>], One \div 2)
                 IN  SampleField(f, x - FMul(dt, u), y - FMul(dt, v), "Smoke")
            ELSE f.m[c]]
    IN  [f EXCEPT !.new_m = new_m, !.m = new_m]

Reverse(seq) == [k \in 1 .. Len(seq) |-> seq[Len(seq) + 1 - k]]

\* u, v and m of g are those of f after each of the places k .. of `order`
RECURSIVE VelocityHeldFrom(_, _, _, _, _)
VelocityHeldFrom(f, g, order, k, dt) ==
    IF k > Len(order) THEN TRUE
    ELSE LET done == AdvectFaceStep(g, order[k][1], order[k][2], dt)
         IN  IF done.u = f.u /\ done.v = f.v /\ done.m = f.m
             THEN VelocityHeldFrom(f, done, order, k + 1, dt)
             ELSE FALSE

RECURSIVE SmokeHeldFrom(_, _, _, _, _)
SmokeHeldFrom(f, g, order, k, dt) ==
    IF k > Len(order) THEN TRUE
    ELSE LET done == AdvectCellStep(g, order[k][1], order[k][2], dt)
         IN  IF done.u = f.u /\ done.v = f.v /\ done.m = f.m
             THEN SmokeHeldFrom(f, done, order, k + 1, dt)
             ELSE FALSE

\* C25: advect_velocity and advect_smoke give what a computation from a
\* frozen copy of u, v and m gives, in the order of the code and in the
\* reverse order, and u, v and m hold their values of entry all through the
\* sweep.
C25_AdvectionReadsEntryValues ==
    [][/\ pc = "advect_velocity" =>
            /\ fluid'[1] = FrozenAdvectVelocity(F, SceneDt)
            /\ AdvectVelocityOver(F, SceneDt, Reverse(VelocityFaces(F))) = fluid'[1]
            /\ VelocityHeldFrom(F, [F EXCEPT !.new_u = F.u, !.new_v = F.v],
                                VelocityFaces(F), 1, SceneDt)
       /\ pc = "advect_smoke" =>
            /\ fluid'[1] = FrozenAdvectSmoke(F, SceneDt)
            /\ AdvectSmokeOver(F, SceneDt, Reverse(SmokeCells(F))) = fluid'[1]
            /\ SmokeHeldFrom(F, [F EXCEPT !.new_m = F.m], SmokeCells(F), 1, SceneDt)]_vars

\* advect_velocity has given a face a new value that a face visited later
\* reads, and advect_smoke has changed the dye
C25_Witness ==
    /\ pc = "enforce_boundary_conditions"
    /\ \E c \in DOMAIN F.u :
        /\ F.u[c] # step_start[1].u[c]
        /\ AdvectsU(F, c[1], c[2])
        /\ AdvectsU(F, c[1] + 1, c[2])
    /\ \E c \in DOMAIN F.m : F.m[c] # step_start[1].m[c]

\* u[i, j] is no valid face: i = 0, or j is 0 or num_y - 1, or one of the
\* two cells it lies between is closed
InvalidUFace(f, c) ==
    \/ c[1] = 0
    \/ c[2] = 0
    \/ c[2] = f.num_y - 1
    \/ f.s[c] = 0
    \/ f.s[<<c[1] - 1, c[2]>>] = 0

InvalidVFace(f, c) ==
    \/ c[2] = 0
    \/ c[1] = 0
    \/ c[1] = f.num_x - 1
    \/ f.s[c] = 0
    \/ f.s[<<c[1], c[2] - 1>>] = 0

GhostCell(f, c) ==
    c[1] = 0 \/ c[1] = f.num_x - 1 \/ c[2] = 0 \/ c[2] = f.num_y - 1

\* C26: advect_velocity leaves every u and v that is no valid face as it is,
\* and advect_smoke leaves m as it is at every ghost cell and every closed
\* cell.
C26_InvalidFacesKept ==
    [][/\ pc = "advect_velocity" =>
            /\ \A c \in DOMAIN F.u : InvalidUFace(F, c) => fluid'[1].u[c] = F.u[c]
            /\ \A c \in DOMAIN F.v : InvalidVFace(F, c) => fluid'[1].v[c] = F.v[c]
       /\ pc = "advect_smoke" =>
            \A c \in DOMAIN F.m :
                (GhostCell(F, c) \/ F.s[c] = 0) => fluid'[1].m[c] = F.m[c]]_vars

\* advect_velocity has run on a fluid that moves along a face between an
\* open and a closed interior cell, and has changed another face
C26_Witness ==
    /\ pc = "advect_smoke"
    /\ \E c \in DOMAIN F.u :
        /\ ~GhostCell(F, c) /\ c[1] > 1
        /\ InvalidUFace(F, c)
        /\ AvgV(F, c[1], c[2]) # 0
    /\ \E c \in DOMAIN F.u : F.u[c] # step_start[1].u[c] /\ ~InvalidUFace(F, c)

\* C27: after extrapolate v is 0 on the bottom and top rows; u on those rows
\* equals u one row in, in columns 1 .. num_x - 2; u[0, j] of an interior
\* row keeps a value that was not 0 and takes u[1, j] when it was 0; the
\* last column equals the column before it, for u and for v.
C27_ExtrapolateBoundaries ==
    [][pc = "extrapolate" =>
        LET g == fluid'[1]
            nx == F.num_x
            ny == F.num_y
        IN  /\ \A i \in 0 .. nx - 1 : g.v[<<i, 0>>] = 0 /\ g.v[<<i, ny - 1>>] = 0
            /\ \A i \in 1 .. nx - 2 :
                /\ g.u[<<i, 0>>] = g.u[<<i, 1>>]
                /\ g.u[<<i, ny - 1>>] = g.u[<<i, ny - 2>>]
            /\ \A j \in 1 .. ny - 2 :
                IF F.u[<<0, j>>] # 0
                THEN g.u[<<0, j>>] = F.u[<<0, j>>]
                ELSE g.u[<<0, j>>] = g.u[<<1, j>>]
            /\ \A j \in 0 .. ny - 1 :
                /\ g.u[<<nx - 1, j>>] = g.u[<<nx - 2, j>>]
                /\ g.v[<<nx - 1, j>>] = g.v[<<nx - 2, j>>]]_vars

\* extrapolate has kept an inflow in column 0 that differs from column 1
C27_Witness ==
    /\ pc = "advect_velocity"
    /\ \E j \in 1 .. F.num_y - 2 :
        F.u[<<0, j>>] # 0 /\ F.u[<<0, j>>] # F.u[<<1, j>>]

\* C28: putting the list of obstacles into the fluid once more leaves s, u, v
\* and m as they are.
C28_ApplyingTwiceChangesNothing ==
    (obstacles # <<>> /\ radiators = <<>> /\ steps = 0) =>
        LET g == ApplyToFluid(obstacles, F)
        IN  g.s = F.s /\ g.u = F.u /\ g.v = F.v /\ g.m = F.m

\* C29: when clear_obstacles has emptied the list, the bottom and top rows of
\* a wind tunnel are closed as setup_wind_tunnel left them.
C29_ClearKeepsWalls ==
    (scene_type = "WindTunnel" /\ fluid # <<>> /\ obstacles = <<>>) =>
        \A i \in 0 .. F.num_x - 1 :
            F.s[<<i, 0>>] = 0 /\ F.s[<<i, F.num_y - 1>>] = 0

====
